---------------------------- MODULE Spec2Model ----------------------------
(***************************************************************************)
(* InvoiceFlow: invoice arithmetic, status derivation, the invoice store   *)
(* (create / update / delete of invoices and their items), the read-only   *)
(* requests (statistics, PDF and spreadsheet export) and the invoice forms.*)
(*                                                                         *)
(* JavaScript numbers are modelled as exact rationals <<n, d>> (d > 0, in  *)
(* lowest terms); <<0, 0>> is NaN.  IEEE-754 rounding is not modelled.     *)
(* Instants are whole hours since the epoch; calendar dates are day        *)
(* numbers, and a date-only string parses to UTC midnight of that day.     *)
(***************************************************************************)
EXTENDS Integers, Sequences, FiniteSets, TLC

VARIABLES
    \* --- arithmetic (calculateInvoiceTotal applied to one argument triple)
    subtotalArg, discountArg, taxArg, totalResult, calcPc,
    \* --- status derivation (one invoice seen by the row display and by the
    \*     statistics aggregator at one instant)
    currentStatus, dueDate, clock, tzOffset, shownStatus, rowBadge, statsBucket, statusPc,
    \* --- the store and the request handlers running against it
    invoices,       \* rows of table invoices
    invoiceItems,   \* rows of table invoice_items
    invoiceSeq,     \* last value of the serial invoices.id
    itemSeq,        \* last value of the serial invoice_items.id
    handlers,       \* per request slot: the request and the position of its handler
    started,        \* number of requests received so far
    \* --- read-only requests (statistics, PDF and spreadsheet export)
    clients,        \* rows of table clients
    statsResult,    \* the last result of getInvoiceStats, with its argument
    response,       \* the last answer of an export route
    request,        \* the GET request answered: its user and its path
    \* --- the invoice forms (CreateInvoice page, InvoiceForm component)
    formKind, formItems, formDiscount, formTax, formPc, submitted,
    \* --- payment settings
    paymentSettings,   \* rows of table payment_settings
    settingsSeq,       \* last value of the serial payment_settings.id
    upserts            \* per caller: the position of its upsertPaymentSettings call

calcVars   == <<subtotalArg, discountArg, taxArg, totalResult, calcPc>>
statusVars == <<currentStatus, dueDate, clock, tzOffset, shownStatus, rowBadge, statsBucket,
                statusPc>>
storeVars  == <<invoices, invoiceItems, invoiceSeq, itemSeq, handlers, started>>
readVars   == <<clients, statsResult, response, request>>
formVars   == <<formKind, formItems, formDiscount, formTax, formPc, submitted>>
settingsVars == <<paymentSettings, settingsSeq, upserts>>
vars       == <<calcVars, statusVars, storeVars, readVars, formVars, settingsVars>>

----------------------------------------------------------------------------
(* JavaScript numbers as exact rationals                                   *)

NaN == <<0, 0>>

IsNaN(x) == x[2] = 0

Abs(i) == IF i < 0 THEN -i ELSE i

RECURSIVE GCD(_, _)
GCD(a, b) == IF b = 0 THEN a ELSE GCD(b, a % b)

Norm(n, d) ==
    LET g == GCD(Abs(n), d) IN <<n \div g, d \div g>>

Num(i) == <<i, 1>>

\* a decimal literal with two fraction digits, given in hundredths
Dec(c) == Norm(c, 100)

\* a * b, reducing crosswise before multiplying
NumMul(a, b) ==
    IF IsNaN(a) \/ IsNaN(b) THEN NaN
    ELSE LET g == GCD(Abs(a[1]), b[2])
             h == GCD(Abs(b[1]), a[2])
         IN  Norm((a[1] \div g) * (b[1] \div h), (a[2] \div h) * (b[2] \div g))

\* a / b; division by zero is not reached by the modelled code
NumDiv(a, b) ==
    IF IsNaN(a) \/ IsNaN(b) \/ b[1] = 0 THEN NaN
    ELSE IF b[1] < 0 THEN NumMul(a, <<-b[2], -b[1]>>)
    ELSE NumMul(a, <<b[2], b[1]>>)

\* a + b over the least common denominator
NumAdd(a, b) ==
    IF IsNaN(a) \/ IsNaN(b) THEN NaN
    ELSE LET g == GCD(a[2], b[2])
         IN  Norm(a[1] * (b[2] \div g) + b[1] * (a[2] \div g), (a[2] \div g) * b[2])

NumNeg(a) == IF IsNaN(a) THEN NaN ELSE <<-a[1], a[2]>>

NumSub(a, b) == NumAdd(a, NumNeg(b))

\* a < b on numbers; any comparison with NaN is false
NumLt(a, b) == ~IsNaN(a) /\ ~IsNaN(b) /\ a[1] * b[2] < b[1] * a[2]

NumLe(a, b) == ~IsNaN(a) /\ ~IsNaN(b) /\ a[1] * b[2] <= b[1] * a[2]

----------------------------------------------------------------------------
(* invoiceUtils.ts: calculateInvoiceTotal                                  *)

\* the mutation: tax taken on the raw subtotal instead of the taxable amount
calculateInvoiceTotal_taxOnSubtotal(subtotal, discountPercent, taxPercent) ==
    LET discountAmount == NumDiv(NumMul(subtotal, discountPercent), Num(100))
        taxableAmount  == NumSub(subtotal, discountAmount)
        taxAmount      == NumDiv(NumMul(subtotal, taxPercent), Num(100))
    IN  NumAdd(taxableAmount, taxAmount)

calculateInvoiceTotal(subtotal, discountPercent, taxPercent) ==
    LET discountAmount == NumDiv(NumMul(subtotal, discountPercent), Num(100))
        taxableAmount  == NumSub(subtotal, discountAmount)
        taxAmount      == NumDiv(NumMul(taxableAmount, taxPercent), Num(100))
    IN  NumAdd(taxableAmount, taxAmount)

----------------------------------------------------------------------------
(* Dates: new Date(string), Date.setHours(0,0,0,0), Date < Date            *)

\* the time value of new Date(s) for an unparseable s (Invalid Date)
InvalidDate == -1

\* new Date("YYYY-MM-DD"): UTC midnight of the day, in hours
ParseDate(d) == IF d = InvalidDate THEN InvalidDate ELSE d * 24

\* today.setHours(0, 0, 0, 0): midnight of the local day that contains t,
\* for a browser whose local time is UTC + tz hours
LocalMidnight(t, tz) == (((t + tz) \div 24) * 24) - tz

\* the mutation: an Invalid Date compares as the earliest instant
DateLt_noInvalidCheck(a, b) == a < b

\* a < b on Date objects: false when either is an Invalid Date
DateLt(a, b) == a # InvalidDate /\ b # InvalidDate /\ a < b

----------------------------------------------------------------------------
(* invoiceUtils.ts: validateInvoiceData, for an invoice whose number and   *)
(* dates are present; clientId 0 stands for a missing client               *)

validateInvoiceData(invoice) ==
    (IF invoice.clientId = 0 THEN {"Client is required"} ELSE {})
    \cup (IF DateLt(ParseDate(invoice.dueDate), ParseDate(invoice.issueDate))
          THEN {"Due date must be after issue date"} ELSE {})

----------------------------------------------------------------------------
(* invoiceUtils.ts: isInvoiceOverdue, getInvoiceStatus                     *)

isInvoiceOverdue(due, status, now, tz) ==
    IF status = "paid" THEN FALSE
    ELSE DateLt(ParseDate(due), LocalMidnight(now, tz))

\* the mutation: the early return covers 'paid' only
getInvoiceStatus_draftNotStable(status, due, now, tz) ==
    IF status = "paid" THEN status
    ELSE IF isInvoiceOverdue(due, status, now, tz) THEN "overdue"
    ELSE status

getInvoiceStatus(status, due, now, tz) ==
    IF status = "paid" \/ status = "draft" THEN status
    ELSE IF isInvoiceOverdue(due, status, now, tz) THEN "overdue"
    ELSE status

(* App.tsx: the badge of an invoice row shows the persisted status          *)
getStatusBadge(status) ==
    CASE status = "paid"    -> "Paid"
      [] status = "pending" -> "Pending"
      [] status = "overdue" -> "Overdue"
      [] status = "draft"   -> "Draft"
      [] OTHER              -> status

\* the mutation: the default case tests the due date as the pending case does
StatsCase_defaultByDueDate(status, due, now) ==
    CASE status = "paid"    -> "paidAmount"
      [] status = "overdue" -> "overdueAmount"
      [] OTHER              ->
            IF DateLt(ParseDate(due), now) THEN "overdueAmount" ELSE "pendingAmount"

(* DatabaseStorage.getInvoiceStats: the accumulator one invoice is added to *)
StatsCase(status, due, now) ==
    CASE status = "paid"    -> "paidAmount"
      [] status = "pending" ->
            IF DateLt(ParseDate(due), now) THEN "overdueAmount" ELSE "pendingAmount"
      [] status = "overdue" -> "overdueAmount"
      [] OTHER              -> "pendingAmount"

----------------------------------------------------------------------------
(* Input domains                                                           *)

MaxCents == 6
MaxPercent == 10
MaxDay == 2

Statuses == {"draft", "pending", "paid", "overdue", "cancelled"}

\* subtotals: a few cents, 99.99 and 125
Subtotals == {Dec(c) : c \in 0..MaxCents} \cup {Dec(9999), Num(125)}

\* percentages: whole percents, 12.5, 100 and the out-of-range 150
Percents == {Num(p) : p \in 0..MaxPercent} \cup {<<25, 2>>, Num(100), Num(150)}

DueDates == (1..MaxDay) \cup {InvalidDate}

\* every hour from day 1, 00:00 UTC to the end of the day after MaxDay
Instants == 24..((MaxDay + 2) * 24 - 1)

\* browser time zones: UTC-8, UTC, UTC+13
TzOffsets == {-8, 0, 13}

----------------------------------------------------------------------------
(* schema.ts: decimal columns.  A decimal value travels as a string; a     *)
(* string is modelled by the number it spells, "NaN" by NaN, and a string  *)
(* that spells no number (such as "abc") by NotANumeral.                   *)

NotANumeral == <<1, 0>>

\* the empty string
EmptyStr == <<2, 0>>

\* parseFloat(str): the number a numeral spells, NaN for every other string
parseFloat(str) == IF str[2] = 0 THEN NaN ELSE str

\* Number.prototype.toFixed(2): two fraction digits, "NaN" for NaN
toFixed2(x) ==
    IF IsNaN(x) THEN NaN
    ELSE LET c == (2 * Abs(x[1]) * 100 + x[2]) \div (2 * x[2])
         IN  Dec(IF x[1] < 0 THEN -c ELSE c)

\* PostgreSQL reads the string into a numeric column: a numeral or 'NaN'
PgAccepts(str) == str[2] # 0 \/ str = NaN

\* numeric(p, 2): the value is rounded to two fraction digits, half away from 0
PgNumeric(x) ==
    IF IsNaN(x) THEN NaN
    ELSE LET c == (2 * Abs(x[1]) * 100 + x[2]) \div (2 * x[2])
         IN  Dec(IF x[1] < 0 THEN -c ELSE c)

DecimalColumns == {"subtotal", "discount", "tax", "total"}

----------------------------------------------------------------------------
(* Requests                                                                *)

MaxSlots == 2
MaxRequests == 3
MaxInvoices == 2

Slots == 1..MaxSlots

Users == {1, 2}

InvoiceIds == 1..MaxInvoices

Item(description, quantity, rate, amount) ==
    [description |-> description, quantity |-> quantity, rate |-> rate, amount |-> amount]

ItemA == Item("A", Num(2), Num(50), Num(100))
ItemB == Item("B", Num(1), Num(25), Num(25))
\* what CreateInvoice.onSubmit sends for quantity "abc", rate "10"
ItemBad == Item("C", NotANumeral, Num(10), NaN)

\* every body names client 1
Invoice(status, issue, due, subtotal, discount, tax, total) ==
    [clientId |-> 1, status |-> status, issueDate |-> issue, dueDate |-> due,
     subtotal |-> subtotal, discount |-> discount, tax |-> tax, total |-> total]

\* bodies of POST /api/invoices that pass createInvoiceSchema
CreateBodies ==
    { [invoice |-> Invoice("draft", 1, 2, Num(100), Num(0), Num(0), Num(100)),
       items   |-> <<ItemA>>],
      [invoice |-> Invoice("pending", 1, 1, Num(125), Num(10), Num(5), <<945, 8>>),
       items   |-> <<ItemA, ItemB>>],
      [invoice |-> Invoice("pending", 1, 2, Num(100), Num(10), Num(0), Num(100)),
       items   |-> <<ItemA>>],
      [invoice |-> Invoice("draft", 1, 2, Num(0), Num(0), Num(0), Num(0)),
       items   |-> <<ItemBad>>],
      [invoice |-> Invoice("draft", 1, 2, Num(0), Num(0), Num(0), NotANumeral),
       items   |-> <<ItemB>>],
      [invoice |-> Invoice("draft", 1, 2, Num(0), Num(0), Num(0), Num(0)),
       items   |-> <<>>],
      [invoice |-> Invoice("draft", 2, 1, Num(100), Num(0), Num(0), Num(100)),
       items   |-> <<ItemA>>] }

\* bodies of PUT /api/invoices/:id: the fields insertInvoiceSchema.partial()
\* keeps (patch) and the item list the caller sends along, which it strips
UpdateBodies ==
    { [patch |-> [discount |-> Num(50)],                   items |-> <<ItemA>>],
      [patch |-> [status |-> "paid"],                      items |-> <<ItemA>>],
      [patch |-> [subtotal |-> Num(25), total |-> Num(25)], items |-> <<ItemB>>],
      [patch |-> [tax |-> NotANumeral],                    items |-> <<ItemA>>],
      [patch |-> <<>>,                                     items |-> <<ItemA, ItemB>>] }

----------------------------------------------------------------------------
(* DatabaseStorage: createInvoice, updateInvoice, deleteInvoice            *)

\* req is the ordinal of the request the slot serves
IdleHandler ==
    [op |-> "idle", pc |-> "idle", req |-> 0, id |-> 0, items |-> <<>>, result |-> "none"]

Free(s) == handlers[s].pc \in {"idle", "done"}

ItemsOf(id) == {it \in invoiceItems : it.invoiceId = id}

\* the row db.insert(invoices).values(invoice).returning() creates
InvoiceRow(id, user, invoice) ==
    [id |-> id, userId |-> user, clientId |-> invoice.clientId, status |-> invoice.status,
     issueDate |-> invoice.issueDate, dueDate |-> invoice.dueDate,
     subtotal |-> PgNumeric(invoice.subtotal), discount |-> PgNumeric(invoice.discount),
     tax |-> PgNumeric(invoice.tax), total |-> PgNumeric(invoice.total)]

ItemRow(id, invoiceId, item) ==
    [id |-> id, invoiceId |-> invoiceId, description |-> item.description,
     quantity |-> PgNumeric(item.quantity), rate |-> PgNumeric(item.rate),
     amount |-> PgNumeric(item.amount)]

ItemAccepted(item) ==
    PgAccepts(item.quantity) /\ PgAccepts(item.rate) /\ PgAccepts(item.amount)

\* POST /api/invoices; createInvoice up to its first await: the invoice row
\* is inserted, or the insert throws and the route answers 400
createInvoice_insertInvoice(s, user, body) ==
    /\ Free(s)
    /\ started < MaxRequests
    /\ invoiceSeq < MaxInvoices
    /\ started' = started + 1
    /\ IF \A c \in DecimalColumns : PgAccepts(body.invoice[c])
       THEN /\ invoiceSeq' = invoiceSeq + 1
            /\ invoices' = invoices \cup {InvoiceRow(invoiceSeq + 1, user, body.invoice)}
            /\ handlers' = [handlers EXCEPT ![s] =
                    [op |-> "create", pc |-> "insert_items", req |-> started + 1,
                     id |-> invoiceSeq + 1,
                     items |-> body.items, result |-> "none"]]
       ELSE /\ UNCHANGED <<invoiceSeq, invoices>>
            /\ handlers' = [handlers EXCEPT ![s] =
                    [op |-> "create", pc |-> "done", req |-> started + 1, id |-> 0,
                     items |-> body.items, result |-> "error"]]
    /\ UNCHANGED <<invoiceItems, itemSeq, calcVars, statusVars, readVars, formVars, settingsVars>>

\* createInvoice after the first await: the item rows are inserted in one
\* statement, or the insert throws (no values, or a value numeric rejects)
\* and the route answers 400; the select of the client changes nothing
createInvoice_insertItems(s) ==
    /\ handlers[s].op = "create"
    /\ handlers[s].pc = "insert_items"
    /\ LET h == handlers[s]
           n == Len(h.items)
       IN  IF n > 0 /\ \A i \in 1..n : ItemAccepted(h.items[i])
           THEN /\ invoiceItems' = invoiceItems \cup
                        {ItemRow(itemSeq + i, h.id, h.items[i]) : i \in 1..n}
                /\ itemSeq' = itemSeq + n
                /\ handlers' = [handlers EXCEPT ![s].pc = "done", ![s].result = "ok"]
           ELSE /\ UNCHANGED <<invoiceItems, itemSeq>>
                /\ handlers' = [handlers EXCEPT ![s].pc = "done", ![s].result = "error"]
    /\ UNCHANGED <<invoices, invoiceSeq, started, calcVars, statusVars, readVars, formVars, settingsVars>>

\* db.update(invoices).set({...invoice}).where(id): one statement
ApplyPatch(row, patch) ==
    [f \in DOMAIN row |->
        IF f \in DOMAIN patch
        THEN (IF f \in DecimalColumns THEN PgNumeric(patch[f]) ELSE patch[f])
        ELSE row[f]]

\* PUT /api/invoices/:id; updateInvoice
updateInvoice(s, id, body) ==
    /\ Free(s)
    /\ started < MaxRequests
    /\ started' = started + 1
    /\ IF \A f \in DOMAIN body.patch : f \in DecimalColumns => PgAccepts(body.patch[f])
       THEN /\ invoices' = {IF row.id = id THEN ApplyPatch(row, body.patch) ELSE row :
                               row \in invoices}
            /\ handlers' = [handlers EXCEPT ![s] =
                    [op |-> "update", pc |-> "done", req |-> started + 1, id |-> id,
                     items |-> body.items, result |-> "ok"]]
       ELSE /\ UNCHANGED invoices
            /\ handlers' = [handlers EXCEPT ![s] =
                    [op |-> "update", pc |-> "done", req |-> started + 1, id |-> id,
                     items |-> body.items, result |-> "error"]]
    /\ UNCHANGED <<invoiceItems, invoiceSeq, itemSeq, calcVars, statusVars, readVars, formVars, settingsVars>>

\* DELETE /api/invoices/:id; deleteInvoice up to its first await
deleteInvoice_deleteItems(s, id) ==
    /\ Free(s)
    /\ started < MaxRequests
    /\ started' = started + 1
    /\ invoiceItems' = invoiceItems \ ItemsOf(id)
    /\ handlers' = [handlers EXCEPT ![s] =
            [op |-> "delete", pc |-> "delete_invoice", req |-> started + 1, id |-> id,
             items |-> <<>>, result |-> "none"]]
    /\ UNCHANGED <<invoices, invoiceSeq, itemSeq, calcVars, statusVars, readVars, formVars, settingsVars>>

\* deleteInvoice after the first await
deleteInvoice_deleteInvoice(s) ==
    /\ handlers[s].op = "delete"
    /\ handlers[s].pc = "delete_invoice"
    /\ invoices' = {row \in invoices : row.id # handlers[s].id}
    /\ handlers' = [handlers EXCEPT ![s].pc = "done", ![s].result = "ok"]
    /\ UNCHANGED <<invoiceItems, invoiceSeq, itemSeq, started, calcVars, statusVars, readVars, formVars, settingsVars>>

----------------------------------------------------------------------------
(* DatabaseStorage: getInvoiceStats, getInvoiceById                        *)

Client(id, name, email, phone, address) ==
    [id |-> id, name |-> name, email |-> email, phone |-> phone, address |-> address]

\* invoices.invoiceNumber: the number stored with row id
InvoiceNumber(id) == "INV-" \o ToString(id)

\* `$${x.toFixed(2)}`
Currency(x) == <<"$", toFixed2(x)>>

\* the amount string read back as a number
AsNumber(str) == parseFloat(str[2])

\* the forEach of getInvoiceStats over the rows not yet visited
RECURSIVE StatsLoop(_, _, _)
StatsLoop(rows, now, acc) ==
    IF rows = {} THEN acc
    ELSE LET invoice == CHOOSE r \in rows : TRUE
             total   == parseFloat(invoice.total)
             bucket  == StatsCase(invoice.status, invoice.dueDate, now)
         IN  StatsLoop(rows \ {invoice}, now,
                       [acc EXCEPT ![bucket] = NumAdd(@, total)])

\* getInvoiceStats after its select: the forEach over the selected rows and
\* the object returned
AggregateRows(userInvoices, now) ==
    LET acc == StatsLoop(userInvoices, now,
                   [pendingAmount |-> Num(0), paidAmount |-> Num(0), overdueAmount |-> Num(0)])
    IN  [totalInvoices |-> Cardinality(userInvoices),
         pendingAmount |-> Currency(acc.pendingAmount),
         paidAmount    |-> Currency(acc.paidAmount),
         overdueAmount |-> Currency(acc.overdueAmount)]

\* the mutation: the select has no where clause
getInvoiceStats_allUsers(userId, now) == AggregateRows(invoices, now)

\* getInvoiceStats run without interruption
getInvoiceStats(userId, now) ==
    AggregateRows({r \in invoices : r.userId = userId}, now)

\* the item rows of an invoice in the order the select returns them (by id)
RECURSIVE ItemSeq(_)
ItemSeq(rows) ==
    IF rows = {} THEN <<>>
    ELSE LET first == CHOOSE r \in rows : \A q \in rows : r.id <= q.id
         IN  <<first>> \o ItemSeq(rows \ {first})

\* getInvoiceById: found is false for undefined; client is the set of joined
\* client rows, empty when the left join finds none (client: null)
getInvoiceById(id) ==
    LET rows == {r \in invoices : r.id = id}
    IN  IF rows = {}
        THEN [found |-> FALSE]
        ELSE LET row == CHOOSE r \in rows : TRUE
             IN  [found |-> TRUE, invoice |-> row,
                  client |-> {c \in clients : c.id = row.clientId},
                  items |-> ItemSeq(ItemsOf(id))]

----------------------------------------------------------------------------
(* routes.ts: GET /api/invoices/:id/pdf and /excel                         *)

\* the answer of a route: headers is the set of <<name, value>> pairs set
\* with res.setHeader, document the content of the bytes sent, built whether
\* the jsPDF document or the workbook was created
Response(route, id, status, headers, message, document, built) ==
    [route |-> route, id |-> id, status |-> status, headers |-> headers,
     message |-> message, document |-> document, built |-> built]

NoResponse == Response("none", 0, 0, {}, "", <<>>, FALSE)

\* doc.text(str, x, y); str is kept as the pieces of the template string
Text(str, x, y) == [text |-> str, x |-> x, y |-> y]

\* the mutation: the cursor advances by 12 after an item
RECURSIVE PdfItemTexts_step12(_, _)
PdfItemTexts_step12(items, yPosition) ==
    IF items = <<>> THEN <<>>
    ELSE LET item == Head(items)
         IN  << Text(<<item.description>>, 20, yPosition),
                Text(<<item.quantity>>, 120, yPosition),
                Text(<<"$", item.rate>>, 140, yPosition),
                Text(<<"$", item.amount>>, 160, yPosition) >>
             \o PdfItemTexts_step12(Tail(items), yPosition + 12)

\* the texts drawn for the items, the first at yPosition
RECURSIVE PdfItemTexts(_, _)
PdfItemTexts(items, yPosition) ==
    IF items = <<>> THEN <<>>
    ELSE LET item == Head(items)
         IN  << Text(<<item.description>>, 20, yPosition),
                Text(<<item.quantity>>, 120, yPosition),
                Text(<<"$", item.rate>>, 140, yPosition),
                Text(<<"$", item.amount>>, 160, yPosition) >>
             \o PdfItemTexts(Tail(items), yPosition + 10)

\* the mutation: a client without address gets an empty line
PdfBillTo_blankAddress(client) ==
    <<Text(<<client.name>>, 20, 100), Text(<<client.address>>, 20, 110)>>

\* the client name and, if (invoice.client.address), the address
PdfBillTo(client) ==
    <<Text(<<client.name>>, 20, 100)>>
    \o (IF client.address # "" THEN <<Text(<<client.address>>, 20, 110)>> ELSE <<>>)

\* the mutation: the cursor advances past an omitted discount or tax line
PdfTotals_fixedSlots(invoice, ySub) ==
    LET hasDiscount == NumLt(Num(0), parseFloat(invoice.discount))
        hasTax      == NumLt(Num(0), parseFloat(invoice.tax))
    IN  <<Text(<<"Subtotal: $", invoice.subtotal>>, 120, ySub)>>
        \o (IF hasDiscount
            THEN <<Text(<<"Discount: ", invoice.discount, "%">>, 120, ySub + 10)>>
            ELSE <<>>)
        \o (IF hasTax
            THEN <<Text(<<"Tax: ", invoice.tax, "%">>, 120, ySub + 20)>>
            ELSE <<>>)
        \o <<Text(<<"Total: $", invoice.total>>, 120, ySub + 30)>>

\* the totals block, the subtotal line at ySub
PdfTotals(invoice, ySub) ==
    LET hasDiscount == NumLt(Num(0), parseFloat(invoice.discount))
        hasTax      == NumLt(Num(0), parseFloat(invoice.tax))
        yTax   == ySub + 10 + (IF hasDiscount THEN 10 ELSE 0)
        yTotal == yTax + (IF hasTax THEN 10 ELSE 0)
    IN  <<Text(<<"Subtotal: $", invoice.subtotal>>, 120, ySub)>>
        \o (IF hasDiscount
            THEN <<Text(<<"Discount: ", invoice.discount, "%">>, 120, ySub + 10)>>
            ELSE <<>>)
        \o (IF hasTax
            THEN <<Text(<<"Tax: ", invoice.tax, "%">>, 120, yTax)>>
            ELSE <<>>)
        \o <<Text(<<"Total: $", invoice.total>>, 120, yTotal)>>

\* the calls of doc.text from new jsPDF() to doc.output; ok is false when
\* invoice.client.name throws (client is null), texts are the calls made
PdfTexts(r) ==
    LET invoice == r.invoice
        n == Len(r.items)
        heading == << Text(<<"INVOICE">>, 20, 30),
                      Text(<<"Invoice #: ", InvoiceNumber(invoice.id)>>, 20, 50),
                      Text(<<"Issue Date: ", invoice.issueDate>>, 20, 60),
                      Text(<<"Due Date: ", invoice.dueDate>>, 20, 70),
                      Text(<<"Bill To:">>, 20, 90) >>
    IN  IF r.client = {}
        THEN [ok |-> FALSE, texts |-> heading]
        ELSE LET client == CHOOSE c \in r.client : TRUE
                 table  == << Text(<<"Description">>, 20, 130), Text(<<"Qty">>, 120, 130),
                              Text(<<"Rate">>, 140, 130), Text(<<"Amount">>, 160, 130) >>
             IN  [ok |-> TRUE,
                  texts |-> heading \o PdfBillTo(client) \o table
                            \o PdfItemTexts(r.items, 140)
                            \o PdfTotals(invoice, 140 + 10 * n + 10)]

\* the mutation: the route does not test !invoice
pdfRoute_noNotFound(id) ==
    LET r == getInvoiceById(id)
    IN  IF r.found /\ PdfTexts(r).ok
        THEN Response("pdf", id, 200,
                      { <<"Content-Type", "application/pdf">>,
                        <<"Content-Disposition",
                          "attachment; filename=invoice-" \o InvoiceNumber(id) \o ".pdf">> },
                      "", PdfTexts(r).texts, TRUE)
        ELSE Response("pdf", id, 500, {}, "Failed to generate PDF", <<>>, TRUE)

\* the mutation: the download headers are set before the document is drawn
pdfRoute_headersFirst(id) ==
    LET r == getInvoiceById(id)
        headers == { <<"Content-Type", "application/pdf">>,
                     <<"Content-Disposition",
                       "attachment; filename=invoice-" \o InvoiceNumber(id) \o ".pdf">> }
    IN  IF ~r.found
        THEN Response("pdf", id, 404, {}, "Invoice not found", <<>>, FALSE)
        ELSE IF PdfTexts(r).ok
        THEN Response("pdf", id, 200, headers, "", PdfTexts(r).texts, TRUE)
        ELSE Response("pdf", id, 500, headers, "Failed to generate PDF", <<>>, TRUE)

\* GET /api/invoices/:id/pdf
pdfRoute(id) ==
    LET r == getInvoiceById(id)
    IN  IF ~r.found
        THEN Response("pdf", id, 404, {}, "Invoice not found", <<>>, FALSE)
        ELSE IF PdfTexts(r).ok
        THEN Response("pdf", id, 200,
                      { <<"Content-Type", "application/pdf">>,
                        <<"Content-Disposition",
                          "attachment; filename=invoice-" \o InvoiceNumber(id) \o ".pdf">> },
                      "", PdfTexts(r).texts, TRUE)
        ELSE Response("pdf", id, 500, {}, "Failed to generate PDF", <<>>, TRUE)

\* the mutation: the rows are emitted last item first
ExcelItemRows_reversed(items) ==
    [i \in 1..Len(items) |->
        LET item == items[Len(items) + 1 - i]
        IN  <<item.description, item.quantity, item.rate, item.amount>>]

\* invoice.items.map(item => [description, quantity, rate, amount])
ExcelItemRows(items) ==
    [i \in 1..Len(items) |->
        <<items[i].description, items[i].quantity, items[i].rate, items[i].amount>>]

\* the mutation: the array has no 'Bill To' and no 'Items' title row
ExcelRows_noTitleRows(r) ==
    LET invoice == r.invoice
        client  == CHOOSE c \in r.client : TRUE
    IN  << <<"Invoice Number", InvoiceNumber(invoice.id)>>,
           <<"Issue Date", invoice.issueDate>>,
           <<"Due Date", invoice.dueDate>>,
           <<"Status", invoice.status>>,
           <<"", "">>,
           <<"Client Name", client.name>>,
           <<"Email", client.email>>,
           <<"Phone", client.phone>>,
           <<"Address", client.address>>,
           <<"", "">>,
           <<"Description", "Quantity", "Rate", "Amount">> >>
        \o ExcelItemRows(r.items)
        \o << <<"", "">>,
              <<"Subtotal", "", "", invoice.subtotal>>,
              <<"Discount (%)", "", "", invoice.discount>>,
              <<"Tax (%)", "", "", invoice.tax>>,
              <<"Total", "", "", invoice.total>> >>

\* invoiceData, for an invoice whose client row was found; email, phone and
\* address are '' when null, discount and tax are never empty strings
ExcelRows(r) ==
    LET invoice == r.invoice
        client  == CHOOSE c \in r.client : TRUE
    IN  << <<"Invoice Number", InvoiceNumber(invoice.id)>>,
           <<"Issue Date", invoice.issueDate>>,
           <<"Due Date", invoice.dueDate>>,
           <<"Status", invoice.status>>,
           <<"", "">>,
           <<"Bill To", "">>,
           <<"Client Name", client.name>>,
           <<"Email", client.email>>,
           <<"Phone", client.phone>>,
           <<"Address", client.address>>,
           <<"", "">>,
           <<"Items", "">>,
           <<"Description", "Quantity", "Rate", "Amount">> >>
        \o ExcelItemRows(r.items)
        \o << <<"", "">>,
              <<"Subtotal", "", "", invoice.subtotal>>,
              <<"Discount (%)", "", "", invoice.discount>>,
              <<"Tax (%)", "", "", invoice.tax>>,
              <<"Total", "", "", invoice.total>> >>

\* GET /api/invoices/:id/excel; invoice.client.name throws when client is null
excelRoute(id) ==
    LET r == getInvoiceById(id)
    IN  IF ~r.found
        THEN Response("excel", id, 404, {}, "Invoice not found", <<>>, FALSE)
        ELSE IF r.client # {}
        THEN Response("excel", id, 200,
                      { <<"Content-Type",
                          "application/vnd.openxmlformats-officedocument.spreadsheetml.sheet">>,
                        <<"Content-Disposition",
                          "attachment; filename=invoice-" \o InvoiceNumber(id) \o ".xlsx">> },
                      "", ExcelRows(r), TRUE)
        ELSE Response("excel", id, 500, {}, "Failed to generate Excel", <<>>, TRUE)

----------------------------------------------------------------------------
(* InvoiceForm.tsx and the CreateInvoice page: items, subtotal, total      *)

FormItem(description, quantity, rate) ==
    [description |-> description, quantity |-> quantity, rate |-> rate]

\* { description: "", quantity: "1", rate: "0" }
DefaultItem == FormItem("", Num(1), Num(0))

\* x || 0 on a number: NaN and 0 are falsy
OrZero(x) == IF IsNaN(x) \/ x = Num(0) THEN Num(0) ELSE x

\* str || "0" on a string: only the empty string is falsy
OrZeroStr(str) == IF str = EmptyStr THEN Num(0) ELSE str

\* Number.prototype.toString(): the numeral of the number, "NaN" for NaN;
\* a numeral is modelled by the number it spells
NumberToString(x) == IF IsNaN(x) THEN NaN ELSE x

\* InvoiceForm.getItemAmount; the same expression is the body of the reduce
\* in CreateInvoice.calculateSubtotal
getItemAmount(item) ==
    LET quantity == OrZero(parseFloat(item.quantity))
        rate     == OrZero(parseFloat(item.rate))
    IN  NumMul(quantity, rate)

\* items.reduce((sum, item) => sum + getItemAmount(item), 0)
RECURSIVE calculateSubtotal(_)
calculateSubtotal(items) ==
    IF items = <<>> THEN Num(0)
    ELSE NumAdd(calculateSubtotal(SubSeq(items, 1, Len(items) - 1)),
                getItemAmount(items[Len(items)]))

\* parseFloat(form.watch("discount") || "0"), likewise for tax
watchPercent(str) == parseFloat(OrZeroStr(str))

\* CreateInvoice.calculateTotal
calculateTotal(items, discountStr, taxStr) ==
    LET subtotal       == calculateSubtotal(items)
        discount       == watchPercent(discountStr)
        tax            == watchPercent(taxStr)
        discountAmount == NumDiv(NumMul(subtotal, discount), Num(100))
        taxableAmount  == NumSub(subtotal, discountAmount)
        taxAmount      == NumDiv(NumMul(taxableAmount, tax), Num(100))
    IN  NumAdd(taxableAmount, taxAmount)

\* InvoiceForm: const total = calculateInvoiceTotal(subtotal, discount, tax)
InvoiceFormTotal(items, discountStr, taxStr) ==
    calculateInvoiceTotal(calculateSubtotal(items),
                          watchPercent(discountStr), watchPercent(taxStr))

\* the object a form hands to its mutation
Submission(items, subtotal, discount, tax, total) ==
    [items |-> items, subtotal |-> subtotal, discount |-> discount, tax |-> tax,
     total |-> total]

NoSubmission == Submission(<<>>, Num(0), Num(0), Num(0), Num(0))

\* InvoiceForm.handleSubmit
handleSubmit(items, discountStr, taxStr) ==
    Submission([i \in 1..Len(items) |->
                   Item(items[i].description, items[i].quantity, items[i].rate,
                        NumberToString(getItemAmount(items[i])))],
               NumberToString(calculateSubtotal(items)), discountStr, taxStr,
               NumberToString(InvoiceFormTotal(items, discountStr, taxStr)))

\* CreateInvoice.onSubmit
onSubmit(items, discountStr, taxStr) ==
    Submission([i \in 1..Len(items) |->
                   Item(items[i].description, items[i].quantity, items[i].rate,
                        NumberToString(NumMul(parseFloat(items[i].quantity),
                                              parseFloat(items[i].rate))))],
               NumberToString(calculateSubtotal(items)), discountStr, taxStr,
               NumberToString(calculateTotal(items, discountStr, taxStr)))

----------------------------------------------------------------------------
(* Idle values of the variable groups a specification does not use         *)

----------------------------------------------------------------------------
(* Payment settings: the table and upsertPaymentSettings                   *)

\* number of upsertPaymentSettings calls that may be in progress together
MaxUpserts == 2

Callers == 1..MaxUpserts

\* values of the column default_payment_terms sent by the settings page
PaymentTerms == {15, 30}

\* an InsertPaymentSettings value: the request body with the session's user
InsertPaymentSettings(userId, terms) ==
    [userId |-> userId, defaultPaymentTerms |-> terms]

IdleUpsert ==
    [pc |-> "idle", settings |-> InsertPaymentSettings(0, 30), existing |-> FALSE,
     returned |-> 0]

\* getPaymentSettings(userId) is defined (a row was selected)
getPaymentSettings(userId) ==
    \E r \in paymentSettings : r.userId = userId

\* POST /api/payment-settings up to the end of the await inside
\* upsertPaymentSettings: the body is parsed with the session's user id and
\* the existing row is looked up
upsertPaymentSettings_select(c, userId, terms) ==
    /\ upserts[c].pc = "idle"
    /\ upserts' = [upserts EXCEPT ![c] =
            [pc |-> "write", settings |-> InsertPaymentSettings(userId, terms),
             existing |-> getPaymentSettings(userId), returned |-> 0]]
    /\ UNCHANGED <<paymentSettings, settingsSeq,
                   calcVars, statusVars, storeVars, readVars, formVars>>

\* the rest of upsertPaymentSettings: update where user_id matches if a row
\* was found, insert otherwise; the route answers with the returned row
upsertPaymentSettings_write(c) ==
    /\ upserts[c].pc = "write"
    /\ LET settings == upserts[c].settings
       IN  IF upserts[c].existing
           THEN /\ paymentSettings' =
                        {IF r.userId = settings.userId
                         THEN [r EXCEPT !.defaultPaymentTerms = settings.defaultPaymentTerms]
                         ELSE r : r \in paymentSettings}
                /\ \E r \in paymentSettings :
                        /\ r.userId = settings.userId
                        /\ upserts' = [upserts EXCEPT ![c].pc = "idle",
                                                      ![c].returned = r.id]
                /\ UNCHANGED settingsSeq
           ELSE /\ settingsSeq' = settingsSeq + 1
                /\ paymentSettings' = paymentSettings \cup
                        {[id |-> settingsSeq + 1, userId |-> settings.userId,
                          defaultPaymentTerms |-> settings.defaultPaymentTerms]}
                /\ upserts' = [upserts EXCEPT ![c].pc = "idle",
                                              ![c].returned = settingsSeq + 1]
    /\ UNCHANGED <<calcVars, statusVars, storeVars, readVars, formVars>>

CalcIdle ==
    /\ subtotalArg = Num(0) /\ discountArg = Num(0) /\ taxArg = Num(0)
    /\ totalResult = NaN /\ calcPc = "idle"

StatusIdle ==
    /\ currentStatus = "draft" /\ dueDate = 1 /\ clock = 24 /\ tzOffset = 0
    /\ shownStatus = "none" /\ rowBadge = "none" /\ statsBucket = "none"
    /\ statusPc = "idle"

StoreIdle ==
    /\ invoices = {}
    /\ invoiceItems = {}
    /\ invoiceSeq = 0
    /\ itemSeq = 0
    /\ handlers = [s \in Slots |-> IdleHandler]
    /\ started = 0

\* no statistics were asked for
NoStats ==
    [userId |-> 0, totalInvoices |-> 0, pendingAmount |-> Currency(Num(0)),
     paidAmount |-> Currency(Num(0)), overdueAmount |-> Currency(Num(0))]

ReadIdle ==
    /\ clients = {}
    /\ statsResult = NoStats
    /\ response = NoResponse
    /\ request = [user |-> 0, path |-> <<>>]

FormIdle ==
    /\ formKind = "none" /\ formItems = <<>>
    /\ formDiscount = Num(0) /\ formTax = Num(0)
    /\ formPc = "idle" /\ submitted = NoSubmission

SettingsIdle ==
    /\ paymentSettings = {}
    /\ settingsSeq = 0
    /\ upserts = [c \in Callers |-> IdleUpsert]

----------------------------------------------------------------------------
(* SpecCalc: calculateInvoiceTotal applied to every argument triple        *)

InitCalc ==
    /\ subtotalArg \in Subtotals
    /\ discountArg \in Percents
    /\ taxArg \in Percents
    /\ totalResult = NaN
    /\ calcPc = "call"
    /\ StatusIdle
    /\ StoreIdle
    /\ ReadIdle
    /\ FormIdle
    /\ SettingsIdle

Calculate ==
    /\ calcPc = "call"
    /\ totalResult' = calculateInvoiceTotal(subtotalArg, discountArg, taxArg)
    /\ calcPc' = "done"
    /\ UNCHANGED <<subtotalArg, discountArg, taxArg, statusVars, storeVars, readVars, formVars, settingsVars>>

NextCalc == Calculate

SpecCalc == InitCalc /\ [][NextCalc]_vars

----------------------------------------------------------------------------
(* SpecStatus: one invoice, shown in a row and aggregated, at one instant  *)

InitStatus ==
    /\ currentStatus \in Statuses
    /\ dueDate \in DueDates
    /\ clock \in Instants
    /\ tzOffset \in TzOffsets
    /\ shownStatus = "none"
    /\ rowBadge = "none"
    /\ statsBucket = "none"
    /\ statusPc = "input"
    /\ CalcIdle
    /\ StoreIdle
    /\ ReadIdle
    /\ FormIdle
    /\ SettingsIdle

\* the row display derives the status with getInvoiceStatus
DeriveStatus ==
    /\ statusPc = "input"
    /\ shownStatus = "none"
    /\ shownStatus' = getInvoiceStatus(currentStatus, dueDate, clock, tzOffset)
    /\ UNCHANGED <<currentStatus, dueDate, clock, tzOffset, rowBadge, statsBucket, statusPc,
                   calcVars, storeVars, readVars, formVars, settingsVars>>

\* the invoice list renders the badge of the row
RenderBadge ==
    /\ statusPc = "input"
    /\ rowBadge = "none"
    /\ rowBadge' = getStatusBadge(currentStatus)
    /\ UNCHANGED <<currentStatus, dueDate, clock, tzOffset, shownStatus, statsBucket, statusPc,
                   calcVars, storeVars, readVars, formVars, settingsVars>>

\* getInvoiceStats adds the invoice to one accumulator
Aggregate ==
    /\ statusPc = "input"
    /\ statsBucket = "none"
    /\ statsBucket' = StatsCase(currentStatus, dueDate, clock)
    /\ UNCHANGED <<currentStatus, dueDate, clock, tzOffset, shownStatus, rowBadge, statusPc,
                   calcVars, storeVars, readVars, formVars, settingsVars>>

NextStatus == DeriveStatus \/ RenderBadge \/ Aggregate

SpecStatus == InitStatus /\ [][NextStatus]_vars

----------------------------------------------------------------------------
(* Spec: concurrent requests against the store                             *)

Init == CalcIdle /\ StatusIdle /\ StoreIdle /\ ReadIdle /\ FormIdle /\ SettingsIdle

Next ==
    \/ \E s \in Slots, u \in Users, b \in CreateBodies : createInvoice_insertInvoice(s, u, b)
    \/ \E s \in Slots : createInvoice_insertItems(s)
    \/ \E s \in Slots, id \in InvoiceIds, b \in UpdateBodies : updateInvoice(s, id, b)
    \/ \E s \in Slots, id \in InvoiceIds : deleteInvoice_deleteItems(s, id)
    \/ \E s \in Slots : deleteInvoice_deleteInvoice(s)

Spec == Init /\ [][Next]_vars

----------------------------------------------------------------------------
(* SpecRead: one read-only request against a populated store               *)

MaxStored == 2

\* the invoice and items stored under id: the example of two items with
\* discount and tax, one item without either, and an invoice without items
StoredBody(id) ==
    CASE id = 1 -> [invoice |-> Invoice("pending", 1, 1, Num(125), Num(10), Num(5), <<945, 8>>),
                    items   |-> <<ItemA, ItemB>>]
      [] id = 2 -> [invoice |-> Invoice("draft", 1, 2, Num(100), Num(0), Num(0), Num(100)),
                    items   |-> <<ItemA>>]
      [] OTHER  -> [invoice |-> Invoice("draft", 1, 2, Num(0), Num(0), Num(0), Num(0)),
                    items   |-> <<>>]

\* discount and tax of the invoice stored under id 2: neither, discount
\* only, tax only
StoredPercents == {<<Num(0), Num(0)>>, <<Num(10), Num(0)>>, <<Num(0), Num(5)>>}

StoredInvoice(id, user, status, due, percents) ==
    LET body == StoredBody(id).invoice
        invoice == IF id = 2
                   THEN [body EXCEPT !.discount = percents[1], !.tax = percents[2],
                                     !.total = calculateInvoiceTotal(body.subtotal,
                                                   percents[1], percents[2])]
                   ELSE body
    IN  [InvoiceRow(id, user, invoice) EXCEPT !.status = status, !.dueDate = due]

StoredItemRows(id) ==
    {ItemRow(2 * (id - 1) + i, id, StoredBody(id).items[i]) : i \in 1..Len(StoredBody(id).items)}

\* table clients: client 1 with or without the optional columns, or deleted
\* (deleteClient removes the row whatever refers to it)
ClientTables ==
    { {Client(1, "Acme", "pay@acme.test", "555-0100", "1 Main St"), Client(2, "Bolt", "", "", "")},
      {Client(1, "Acme", "", "", ""), Client(2, "Bolt", "", "", "")},
      {Client(2, "Bolt", "", "", "")} }

\* noon UTC of day 1: due date 1 has passed, due date 2 has not
ReadClock == ParseDate(1) + 12

Unanswered ==
    /\ statsResult.userId = 0
    /\ response.route = "none"
    /\ shownStatus = "none"

InitRead ==
    /\ \E n \in 0..MaxStored :
         \E f \in [1..n -> Users \X Statuses \X (1..2)], p \in StoredPercents :
            /\ invoices = {StoredInvoice(i, f[i][1], f[i][2], f[i][3], p) : i \in 1..n}
            /\ invoiceItems = UNION {StoredItemRows(i) : i \in 1..n}
            /\ invoiceSeq = n
            /\ itemSeq = 2 * n
    /\ clients \in ClientTables
    /\ handlers = [s \in Slots |-> IdleHandler]
    /\ started = 0
    /\ currentStatus = "draft" /\ dueDate = 1 /\ clock = ReadClock /\ tzOffset = 0
    /\ shownStatus = "none" /\ rowBadge = "none" /\ statsBucket = "none"
    /\ statusPc = "idle"
    /\ statsResult = NoStats
    /\ response = NoResponse
    /\ request = [user |-> 0, path |-> <<>>]
    /\ CalcIdle
    /\ FormIdle
    /\ SettingsIdle

\* the mutation: the aggregator stores the status it derived
GetInvoiceStats_writeBack(userId) ==
    /\ Unanswered
    /\ statsResult' = [userId |-> userId] @@ getInvoiceStats(userId, clock)
    /\ invoices' = {IF r.userId = userId
                        /\ StatsCase(r.status, r.dueDate, clock) = "overdueAmount"
                    THEN [r EXCEPT !.status = "overdue"] ELSE r : r \in invoices}
    /\ UNCHANGED <<invoiceItems, invoiceSeq, itemSeq, handlers, started, clients, response, request,
                   calcVars, statusVars, formVars, settingsVars>>

\* a call of storage.getInvoiceStats(userId)
GetInvoiceStats(userId) ==
    /\ Unanswered
    /\ statsResult' = [userId |-> userId] @@ getInvoiceStats(userId, clock)
    /\ UNCHANGED <<storeVars, clients, response, request, calcVars, statusVars, formVars, settingsVars>>

\* GET /api/invoices/:id/pdf
GetInvoicePdf(id) ==
    /\ Unanswered
    /\ response' = pdfRoute(id)
    /\ UNCHANGED <<storeVars, clients, statsResult, request, calcVars, statusVars, formVars, settingsVars>>

\* GET /api/invoices/:id/excel
GetInvoiceExcel(id) ==
    /\ Unanswered
    /\ response' = excelRoute(id)
    /\ UNCHANGED <<storeVars, clients, statsResult, request, calcVars, statusVars, formVars, settingsVars>>

\* a row of the invoice list derives the status it shows
ShowStatus(id) ==
    /\ Unanswered
    /\ \E r \in invoices :
         /\ r.id = id
         /\ currentStatus' = r.status
         /\ dueDate' = r.dueDate
         /\ shownStatus' = getInvoiceStatus(r.status, r.dueDate, clock, tzOffset)
    /\ UNCHANGED <<clock, tzOffset, rowBadge, statsBucket, statusPc,
                   storeVars, readVars, calcVars, formVars, settingsVars>>

NextRead ==
    \/ \E u \in Users : GetInvoiceStats(u)
    \/ \E id \in 1..(MaxStored + 1) : GetInvoicePdf(id)
    \/ \E id \in 1..(MaxStored + 1) : GetInvoiceExcel(id)
    \/ \E id \in 1..MaxStored : ShowStatus(id)

SpecRead == InitRead /\ [][NextRead]_vars

----------------------------------------------------------------------------
(* SpecForm: one invoice form from its first render to its submission      *)

MaxFormItems == 2

\* what a type="number" input yields: the empty string or a numeral
NumberInputs == {EmptyStr, Num(0), Num(1), Num(10)}

PercentInputs == {EmptyStr, Num(0), Num(10)}

Descriptions == {"", "A"}

\* the invoice prop of InvoiceForm: absent, or an invoice read from the
\* store, whose decimal columns hold numerals or 'NaN'
EditedInvoices ==
    { [items |-> <<FormItem("A", Num(2), Num(50))>>, discount |-> Num(10), tax |-> Num(5)],
      [items |-> <<FormItem("A", NaN, Num(10))>>,    discount |-> NaN,     tax |-> Num(0)],
      [items |-> <<>>,                               discount |-> Num(0),  tax |-> Num(0)] }

InitForm ==
    /\ \/ /\ formKind \in {"CreateInvoice", "InvoiceForm"}
          /\ formItems = <<DefaultItem>>
          /\ formDiscount = Num(0)
          /\ formTax = Num(0)
       \/ /\ formKind = "InvoiceForm"
          /\ \E invoice \in EditedInvoices :
                /\ formItems = invoice.items
                /\ formDiscount = OrZeroStr(NumberToString(invoice.discount))
                /\ formTax = OrZeroStr(NumberToString(invoice.tax))
    /\ formPc = "editing"
    /\ submitted = NoSubmission
    /\ CalcIdle
    /\ StatusIdle
    /\ StoreIdle
    /\ ReadIdle
    /\ SettingsIdle

addItem ==
    /\ formPc = "editing"
    /\ Len(formItems) < MaxFormItems
    /\ formItems' = Append(formItems, DefaultItem)
    /\ UNCHANGED <<formKind, formDiscount, formTax, formPc, submitted,
                   calcVars, statusVars, storeVars, readVars, settingsVars>>

removeItem(index) ==
    /\ formPc = "editing"
    /\ index \in 1..Len(formItems)
    /\ formItems' = IF Len(formItems) > 1
                    THEN SubSeq(formItems, 1, index - 1)
                         \o SubSeq(formItems, index + 1, Len(formItems))
                    ELSE formItems
    /\ UNCHANGED <<formKind, formDiscount, formTax, formPc, submitted,
                   calcVars, statusVars, storeVars, readVars, settingsVars>>

updateItem(index, field, value) ==
    /\ formPc = "editing"
    /\ index \in 1..Len(formItems)
    /\ formItems' = [formItems EXCEPT ![index][field] = value]
    /\ UNCHANGED <<formKind, formDiscount, formTax, formPc, submitted,
                   calcVars, statusVars, storeVars, readVars, settingsVars>>

\* the discount and tax inputs
ChangeDiscount(value) ==
    /\ formPc = "editing"
    /\ formDiscount' = value
    /\ UNCHANGED <<formKind, formItems, formTax, formPc, submitted,
                   calcVars, statusVars, storeVars, readVars, settingsVars>>

ChangeTax(value) ==
    /\ formPc = "editing"
    /\ formTax' = value
    /\ UNCHANGED <<formKind, formItems, formDiscount, formPc, submitted,
                   calcVars, statusVars, storeVars, readVars, settingsVars>>

\* form.handleSubmit(onSubmit) with the other fields filled in
SubmitForm ==
    /\ formPc = "editing"
    /\ submitted' = IF formKind = "InvoiceForm"
                    THEN handleSubmit(formItems, formDiscount, formTax)
                    ELSE onSubmit(formItems, formDiscount, formTax)
    /\ formPc' = "submitted"
    /\ UNCHANGED <<formKind, formItems, formDiscount, formTax,
                   calcVars, statusVars, storeVars, readVars, settingsVars>>

NextForm ==
    \/ addItem
    \/ \E i \in 1..MaxFormItems : removeItem(i)
    \/ \E i \in 1..MaxFormItems, v \in Descriptions : updateItem(i, "description", v)
    \/ \E i \in 1..MaxFormItems, f \in {"quantity", "rate"}, v \in NumberInputs :
            updateItem(i, f, v)
    \/ \E v \in PercentInputs : ChangeDiscount(v)
    \/ \E v \in PercentInputs : ChangeTax(v)
    \/ SubmitForm

SpecForm == InitForm /\ [][NextForm]_vars

----------------------------------------------------------------------------
(* SpecHttp: one GET request routed by express to the invoice handlers     *)

\* the GET routes under /api/invoices in the order registerRoutes adds them
InvoiceGetRoutes ==
    << [pattern |-> <<"api", "invoices">>,                 handler |-> "list"],
       [pattern |-> <<"api", "invoices", ":id">>,          handler |-> "invoice"],
       [pattern |-> <<"api", "invoices", "stats">>,        handler |-> "stats"],
       [pattern |-> <<"api", "invoices", ":id", "pdf">>,   handler |-> "pdf"],
       [pattern |-> <<"api", "invoices", ":id", "excel">>, handler |-> "excel"] >>

\* a path matches a pattern segment by segment; :id matches any segment
Matches(pattern, path) ==
    /\ Len(pattern) = Len(path)
    /\ \A i \in 1..Len(pattern) : pattern[i] = ":id" \/ pattern[i] = path[i]

\* express runs the first registered route that matches; none of the
\* handlers calls next()
Dispatch(path) ==
    LET matching == {k \in 1..Len(InvoiceGetRoutes) : Matches(InvoiceGetRoutes[k].pattern, path)}
    IN  IF matching = {} THEN "none"
        ELSE InvoiceGetRoutes[CHOOSE k \in matching : \A j \in matching : k <= j].handler

\* parseInt(req.params.id) when the segment spells no integer (NaN)
NaNId == -1

\* parseInt(req.params.id), for the ids the requests use
parseInt(segment) ==
    IF \E i \in 1..(MaxStored + 1) : ToString(i) = segment
    THEN CHOOSE i \in 1..(MaxStored + 1) : ToString(i) = segment
    ELSE NaNId

\* GET /api/invoices/:id for an integer id
invoiceRoute(id) ==
    LET r == getInvoiceById(id)
    IN  IF ~r.found
        THEN Response("invoice", id, 404, {}, "Invoice not found", <<>>, FALSE)
        ELSE Response("invoice", id, 200, {}, "", <<r.invoice>>, FALSE)

NoRequest == [user |-> 0, path |-> <<>>]

Segments == {"stats"} \cup {ToString(i) : i \in 1..(MaxStored + 1)}

HttpPaths ==
    {<<"api", "invoices", seg>> : seg \in Segments}
    \cup {<<"api", "invoices", ToString(i), doc>> :
            i \in 1..(MaxStored + 1), doc \in {"pdf", "excel"}}

InitHttp ==
    /\ \E n \in 0..MaxStored :
         \E f \in [1..n -> Users] :
            /\ invoices = {StoredInvoice(i, f[i], "pending", 1, <<Num(0), Num(0)>>) : i \in 1..n}
            /\ invoiceItems = UNION {StoredItemRows(i) : i \in 1..n}
            /\ invoiceSeq = n
            /\ itemSeq = 2 * n
    /\ clients \in ClientTables
    /\ handlers = [s \in Slots |-> IdleHandler]
    /\ started = 0
    /\ currentStatus = "draft" /\ dueDate = 1 /\ clock = ReadClock /\ tzOffset = 0
    /\ shownStatus = "none" /\ rowBadge = "none" /\ statsBucket = "none"
    /\ statusPc = "idle"
    /\ statsResult = NoStats
    /\ response = NoResponse
    /\ request = NoRequest
    /\ CalcIdle
    /\ FormIdle
    /\ SettingsIdle

\* a GET by an authenticated user; with id NaN the select of getInvoiceById
\* either finds no row (404) or is rejected by the database (500)
HttpGet(user, path) ==
    /\ request = NoRequest
    /\ request' = [user |-> user, path |-> path]
    /\ LET handler == Dispatch(path)
           id      == parseInt(path[3])
       IN  CASE handler = "invoice" ->
                  /\ IF id = NaNId
                     THEN response' \in
                            { Response("invoice", id, 404, {}, "Invoice not found", <<>>, FALSE),
                              Response("invoice", id, 500, {}, "Failed to fetch invoice", <<>>, FALSE) }
                     ELSE response' = invoiceRoute(id)
                  /\ UNCHANGED statsResult
             [] handler = "stats" ->
                  /\ statsResult' = [userId |-> user] @@ getInvoiceStats(user, clock)
                  /\ response' = Response("stats", 0, 200, {}, "", <<>>, FALSE)
             [] handler = "pdf" ->
                  /\ response' = pdfRoute(id)
                  /\ UNCHANGED statsResult
             [] handler = "excel" ->
                  /\ response' = excelRoute(id)
                  /\ UNCHANGED statsResult
    /\ UNCHANGED <<storeVars, clients, calcVars, statusVars, formVars, settingsVars>>

NextHttp == \E user \in Users, path \in HttpPaths : HttpGet(user, path)

SpecHttp == InitHttp /\ [][NextHttp]_vars

----------------------------------------------------------------------------
(* SpecConc: getInvoiceStats and getInvoiceById interleaved with writers   *)

\* getInvoiceStats up to the end of its await: the select; the handler
\* holds the selected rows (userInvoices) in items
getInvoiceStats_select(s, userId) ==
    /\ Free(s)
    /\ started < MaxRequests
    /\ started' = started + 1
    /\ handlers' = [handlers EXCEPT ![s] =
            [op |-> "stats", pc |-> "compute", req |-> started + 1, id |-> userId,
             items |-> {r \in invoices : r.userId = userId}, result |-> "none"]]
    /\ UNCHANGED <<invoices, invoiceItems, invoiceSeq, itemSeq,
                   calcVars, statusVars, readVars, formVars, settingsVars>>

\* the mutation: the rows are read again when the amounts are added up
getInvoiceStats_computeReread(s) ==
    /\ handlers[s].op = "stats"
    /\ handlers[s].pc = "compute"
    /\ statsResult' = [userId |-> handlers[s].id]
                      @@ [AggregateRows({r \in invoices : r.userId = handlers[s].id}, clock)
                          EXCEPT !.totalInvoices = Cardinality(handlers[s].items)]
    /\ handlers' = [handlers EXCEPT ![s].pc = "done", ![s].result = "ok"]
    /\ UNCHANGED <<invoices, invoiceItems, invoiceSeq, itemSeq, started,
                   clients, response, request, calcVars, statusVars, formVars, settingsVars>>

\* getInvoiceStats after the await: the forEach and the return
getInvoiceStats_compute(s) ==
    /\ handlers[s].op = "stats"
    /\ handlers[s].pc = "compute"
    /\ statsResult' = [userId |-> handlers[s].id] @@ AggregateRows(handlers[s].items, clock)
    /\ handlers' = [handlers EXCEPT ![s].pc = "done", ![s].result = "ok"]
    /\ UNCHANGED <<invoices, invoiceItems, invoiceSeq, itemSeq, started,
                   clients, response, request, calcVars, statusVars, formVars, settingsVars>>

\* getInvoiceById up to the end of its first await: the select of the invoice
getInvoiceById_selectInvoice(s, id) ==
    /\ Free(s)
    /\ started < MaxRequests
    /\ started' = started + 1
    /\ handlers' = [handlers EXCEPT ![s] =
            IF \E r \in invoices : r.id = id
            THEN [op |-> "get", pc |-> "select_items", req |-> started + 1, id |-> id,
                  items |-> <<>>, result |-> "none"]
            ELSE [op |-> "get", pc |-> "done", req |-> started + 1, id |-> id,
                  items |-> <<>>, result |-> "undefined"]]
    /\ UNCHANGED <<invoices, invoiceItems, invoiceSeq, itemSeq,
                   calcVars, statusVars, readVars, formVars, settingsVars>>

\* getInvoiceById after the first await: the select of the items, the return
getInvoiceById_selectItems(s) ==
    /\ handlers[s].op = "get"
    /\ handlers[s].pc = "select_items"
    /\ handlers' = [handlers EXCEPT ![s].pc = "done", ![s].result = "found",
                                    ![s].items = ItemSeq(ItemsOf(handlers[s].id))]
    /\ UNCHANGED <<invoices, invoiceItems, invoiceSeq, itemSeq, started,
                   calcVars, statusVars, readVars, formVars, settingsVars>>

\* the one body the writers create: two items, pending, due on day 1
ConcBody ==
    [invoice |-> Invoice("pending", 1, 1, Num(125), Num(10), Num(5), <<945, 8>>),
     items   |-> <<ItemA, ItemB>>]

ConcPatch == [patch |-> [status |-> "paid"], items |-> <<ItemA, ItemB>>]

InitConc == Init

\* the slots of the writing requests and the slot of the reading requests
WriterSlot == Slots \ {MaxSlots}

ReaderSlot == {MaxSlots}

NextConc ==
    \/ \E s \in WriterSlot, u \in Users : createInvoice_insertInvoice(s, u, ConcBody)
    \/ \E s \in WriterSlot : createInvoice_insertItems(s)
    \/ \E s \in WriterSlot, id \in InvoiceIds : updateInvoice(s, id, ConcPatch)
    \/ \E s \in WriterSlot, id \in InvoiceIds : deleteInvoice_deleteItems(s, id)
    \/ \E s \in WriterSlot : deleteInvoice_deleteInvoice(s)
    \/ \E s \in ReaderSlot, u \in Users : getInvoiceStats_select(s, u)
    \/ \E s \in ReaderSlot : getInvoiceStats_compute(s)
    \/ \E s \in ReaderSlot, id \in InvoiceIds : getInvoiceById_selectInvoice(s, id)
    \/ \E s \in ReaderSlot : getInvoiceById_selectItems(s)

SpecConc == InitConc /\ [][NextConc]_vars

----------------------------------------------------------------------------
(* SpecSettings: concurrent POST /api/payment-settings requests            *)

InitSettings == Init

NextSettings ==
    \/ \E c \in Callers, userId \in Users, terms \in PaymentTerms :
            upsertPaymentSettings_select(c, userId, terms)
    \/ \E c \in Callers : upsertPaymentSettings_write(c)

SpecSettings == InitSettings /\ [][NextSettings]_vars

----------------------------------------------------------------------------
(* Properties of calculateInvoiceTotal (SpecCalc)                          *)

InPercentRange(p) == NumLe(Num(0), p) /\ NumLe(p, Num(100))

\* (subtotal - subtotal*discount/100) * (1 + tax/100)
ClosedFormTotal(subtotal, discount, tax) ==
    NumMul(NumSub(subtotal, NumDiv(NumMul(subtotal, discount), Num(100))),
           NumAdd(Num(1), NumDiv(tax, Num(100))))

\* subtotal - discountAmount + subtotal*tax/100: tax on the raw subtotal
RawSubtotalTaxTotal(subtotal, discount, tax) ==
    NumAdd(NumSub(subtotal, NumDiv(NumMul(subtotal, discount), Num(100))),
           NumDiv(NumMul(subtotal, tax), Num(100)))

\* C1: for subtotal >= 0 and discount, tax in [0,100] the total returned by
\* calculateInvoiceTotal is (subtotal - subtotal*discount/100) * (1 + tax/100),
\* it is >= 0, and (125, 10, 5) gives 118.125.
C1_TotalIsClosedForm ==
    (/\ calcPc = "done"
     /\ NumLe(Num(0), subtotalArg)
     /\ InPercentRange(discountArg)
     /\ InPercentRange(taxArg))
    => /\ totalResult = ClosedFormTotal(subtotalArg, discountArg, taxArg)
       /\ NumLe(Num(0), totalResult)
       /\ (subtotalArg = Num(125) /\ discountArg = Num(10) /\ taxArg = Num(5)
              => totalResult = <<945, 8>>)

C1_Witness ==
    /\ calcPc = "done"
    /\ subtotalArg = Num(125) /\ discountArg = Num(10) /\ taxArg = Num(5)
    /\ totalResult = <<945, 8>>

\* C2 as stated: whenever discount > 0 and tax > 0 the total differs from the
\* total with tax computed on the raw subtotal, for every subtotal.
C2_DiffersForEverySubtotal ==
    (/\ calcPc = "done"
     /\ NumLt(Num(0), discountArg)
     /\ NumLt(Num(0), taxArg))
    => totalResult # RawSubtotalTaxTotal(subtotalArg, discountArg, taxArg)

\* C2 amended: whenever discount > 0, tax > 0 and subtotal > 0 the total
\* differs from the total with tax computed on the raw subtotal.
C2_DiffersForPositiveSubtotal ==
    (/\ calcPc = "done"
     /\ NumLt(Num(0), discountArg)
     /\ NumLt(Num(0), taxArg)
     /\ NumLt(Num(0), subtotalArg))
    => totalResult # RawSubtotalTaxTotal(subtotalArg, discountArg, taxArg)

C2_Witness ==
    /\ calcPc = "done"
    /\ subtotalArg = Dec(1) /\ discountArg = Num(1) /\ taxArg = Num(1)
    /\ NumLt(totalResult, RawSubtotalTaxTotal(subtotalArg, discountArg, taxArg))

----------------------------------------------------------------------------
(* Properties of the status derivation (SpecStatus)                        *)

\* the current local day is after the due day
DuePassed == DateLt(ParseDate(dueDate), LocalMidnight(clock, tzOffset))

\* C7: for persisted status paid, draft or overdue, getInvoiceStatus returns the
\* persisted status for every due date and instant, and deriving again from the
\* result gives the same result.
C7_PaidDraftOverdueUnchanged ==
    (shownStatus # "none" /\ currentStatus \in {"paid", "draft", "overdue"})
    => /\ shownStatus = currentStatus
       /\ getInvoiceStatus(shownStatus, dueDate, clock, tzOffset) = shownStatus

C7_Witness ==
    /\ currentStatus = "draft"
    /\ DuePassed
    /\ shownStatus = "draft"

\* C8 as stated: getInvoiceStatus('cancelled', dueDate) is 'cancelled' for every
\* due date, also one in the past.
C8_CancelledStable ==
    (shownStatus # "none" /\ currentStatus = "cancelled")
    => shownStatus = "cancelled"

\* C9 as stated: a pending invoice is overdue when the current instant is
\* strictly after dueDate and pending when it is at or before dueDate, in
\* getInvoiceStatus and in the statistics aggregator alike.
C9_PendingOverdueIffPastDue ==
    (currentStatus = "pending" /\ dueDate # InvalidDate)
    => /\ shownStatus # "none" =>
            shownStatus = (IF clock > ParseDate(dueDate) THEN "overdue" ELSE "pending")
       /\ statsBucket # "none" =>
            statsBucket = (IF clock > ParseDate(dueDate) THEN "overdueAmount"
                           ELSE "pendingAmount")

\* C10 as stated: an invoice is added to overdueAmount exactly when its
\* displayed (badge) and derived (getInvoiceStatus) status is overdue, and to
\* paidAmount exactly when it is paid.
C10_DisplayAndStatsAgree ==
    /\ (shownStatus # "none" /\ statsBucket # "none")
        => /\ (statsBucket = "overdueAmount") <=> (shownStatus = "overdue")
           /\ (statsBucket = "paidAmount") <=> (shownStatus = "paid")
    /\ (rowBadge # "none" /\ statsBucket # "none")
        => /\ (statsBucket = "overdueAmount") <=> (rowBadge = "Overdue")
           /\ (statsBucket = "paidAmount") <=> (rowBadge = "Paid")

\* C17: for a due date that does not parse, isInvoiceOverdue returns false,
\* getInvoiceStatus returns the persisted status (a pending invoice stays
\* pending), and the statistics aggregator adds a pending invoice to
\* pendingAmount; each of them returns a value.
C17_MalformedDueDateNotOverdue ==
    dueDate = InvalidDate
    => /\ isInvoiceOverdue(dueDate, currentStatus, clock, tzOffset) = FALSE
       /\ shownStatus # "none" => shownStatus = currentStatus
       /\ (statsBucket # "none" /\ currentStatus = "pending")
            => statsBucket = "pendingAmount"
       /\ statsBucket \in {"none", "paidAmount", "overdueAmount", "pendingAmount"}

C17_Witness ==
    /\ dueDate = InvalidDate
    /\ currentStatus = "pending"
    /\ shownStatus = "pending"
    /\ statsBucket = "pendingAmount"

----------------------------------------------------------------------------
(* Properties of the read-only requests (SpecRead)                         *)

UserInvoices(userId) == {r \in invoices : r.userId = userId}

\* the sum of the totals of a set of invoice rows
RECURSIVE SumTotals(_)
SumTotals(rows) ==
    IF rows = {} THEN Num(0)
    ELSE LET r == CHOOSE x \in rows : TRUE
         IN  NumAdd(parseFloat(r.total), SumTotals(rows \ {r}))

StatsAnswered == statsResult.userId # 0

\* C11: the three amounts of getInvoiceStats, read as numbers, add up to the
\* sum of the totals of all invoices of the user, and totalInvoices is the
\* number of those invoices.
C11_BucketsSumToTotals ==
    StatsAnswered
    => LET mine == UserInvoices(statsResult.userId)
       IN  /\ NumAdd(NumAdd(AsNumber(statsResult.pendingAmount),
                            AsNumber(statsResult.paidAmount)),
                     AsNumber(statsResult.overdueAmount)) = SumTotals(mine)
           /\ statsResult.totalInvoices = Cardinality(mine)

C11_Witness ==
    /\ StatsAnswered
    /\ statsResult.totalInvoices = 2
    /\ AsNumber(statsResult.paidAmount) # Num(0)
    /\ AsNumber(statsResult.overdueAmount) # Num(0)

\* the bucket the rule of the claim gives an invoice
RuleBucket(r, now) ==
    IF r.status = "paid" THEN "paidAmount"
    ELSE IF r.status = "overdue" \/ (r.status = "pending" /\ now > ParseDate(r.dueDate))
    THEN "overdueAmount"
    ELSE "pendingAmount"

\* C12: each amount of getInvoiceStats is the sum of the totals of the
\* invoices the rule assigns to it: paid to paidAmount; otherwise persisted
\* overdue, or pending with the due date passed, to overdueAmount; otherwise
\* pendingAmount, so draft and cancelled always count as pending.
C12_BucketRule ==
    StatsAnswered
    => LET mine == UserInvoices(statsResult.userId)
       IN  /\ \A b \in {"pendingAmount", "paidAmount", "overdueAmount"} :
                AsNumber(statsResult[b]) =
                    SumTotals({r \in mine : RuleBucket(r, clock) = b})
           /\ NumLe(SumTotals({r \in mine : r.status \in {"draft", "cancelled"}}),
                    AsNumber(statsResult.pendingAmount))

C12_Witness ==
    /\ StatsAnswered
    /\ \E r \in UserInvoices(statsResult.userId) :
         /\ r.status = "cancelled"
         /\ clock > ParseDate(r.dueDate)
         /\ AsNumber(statsResult.pendingAmount) = parseFloat(r.total)
    /\ \E r \in UserInvoices(statsResult.userId) :
         /\ r.status = "pending"
         /\ clock > ParseDate(r.dueDate)
         /\ AsNumber(statsResult.overdueAmount) = parseFloat(r.total)

\* C13: a status derivation, a statistics request, a PDF export or a
\* spreadsheet export leaves every invoice, item and client row as it was;
\* a pending invoice whose due date has passed stays pending in the store.
C13_ReadsChangeNothing ==
    [][invoices' = invoices /\ invoiceItems' = invoiceItems /\ clients' = clients]_vars

C13_Witness ==
    /\ StatsAnswered
    /\ AsNumber(statsResult.overdueAmount) # Num(0)
    /\ \E r \in UserInvoices(statsResult.userId) :
         r.status = "pending" /\ clock > ParseDate(r.dueDate)

Resolves(id) == \E r \in invoices : r.id = id

ExportAnswered == response.route # "none"

C19_FailureDeliversNothing ==
    ExportAnswered
    => /\ (Resolves(response.id) /\ getInvoiceById(response.id).client = {})
            => /\ response.status = 500
               /\ response.headers = {}
               /\ Len(response.document) = 0
       /\ (response.headers # {} \/ Len(response.document) > 0)
            => /\ response.status = 200
               /\ Cardinality(response.headers) = 2
               /\ Resolves(response.id)
               /\ LET r == getInvoiceById(response.id)
                  IN  IF response.route = "pdf"
                      THEN PdfTexts(r).ok /\ response.document = PdfTexts(r).texts
                      ELSE r.client # {} /\ response.document = ExcelRows(r)

C19_Witness ==
    /\ response.route = "pdf"
    /\ response.status = 500
    /\ response.built
    /\ Resolves(response.id)

IsBlank(row) == Len(row) = 2 /\ row[1] = "" /\ row[2] = ""

TableHeader == <<"Description", "Quantity", "Rate", "Amount">>

ExcelDelivered == response.route = "excel" /\ response.status = 200

\* C20 as stated: the item-table header row directly follows the second
\* blank separator row.
C20_HeaderFollowsSecondBlank ==
    ExcelDelivered
    => LET rows   == response.document
           blanks == {k \in 1..Len(rows) : IsBlank(rows[k])}
           second == CHOOSE k \in blanks : Cardinality({j \in blanks : j < k}) = 1
       IN  /\ Cardinality(blanks) = 3
           /\ rows[second + 1] = TableHeader

\* C20 amended: four invoice rows, a blank row, the 'Bill To' title row, four
\* client rows, a blank row, the 'Items' title row, the item-table header
\* row, the n item rows in item order, a blank row, and the four summary
\* rows with the value in the fourth column; 18 + n rows in all.
C20_RowsWithTitleRows ==
    ExcelDelivered
    => LET rows  == response.document
           r     == getInvoiceById(response.id)
           items == r.items
           n     == Len(items)
       IN  /\ Len(rows) = 18 + n
           /\ rows[1][1] = "Invoice Number" /\ rows[2][1] = "Issue Date"
           /\ rows[3][1] = "Due Date" /\ rows[4][1] = "Status"
           /\ \A k \in 1..4 : Len(rows[k]) = 2
           /\ IsBlank(rows[5])
           /\ rows[6] = <<"Bill To", "">>
           /\ rows[7][1] = "Client Name" /\ rows[8][1] = "Email"
           /\ rows[9][1] = "Phone" /\ rows[10][1] = "Address"
           /\ \A k \in 7..10 : Len(rows[k]) = 2
           /\ IsBlank(rows[11])
           /\ rows[12] = <<"Items", "">>
           /\ rows[13] = TableHeader
           /\ \A i \in 1..n :
                rows[13 + i] = <<items[i].description, items[i].quantity,
                                 items[i].rate, items[i].amount>>
           /\ \A i \in 1..(n - 1) : items[i].id < items[i + 1].id
           /\ IsBlank(rows[14 + n])
           /\ rows[15 + n] = <<"Subtotal", "", "", r.invoice.subtotal>>
           /\ rows[16 + n] = <<"Discount (%)", "", "", r.invoice.discount>>
           /\ rows[17 + n] = <<"Tax (%)", "", "", r.invoice.tax>>
           /\ rows[18 + n] = <<"Total", "", "", r.invoice.total>>

C20_Witness ==
    /\ ExcelDelivered
    /\ Len(getInvoiceById(response.id).items) = 2
    /\ Len(response.document) = 20

----------------------------------------------------------------------------
(* Properties of the exported documents (SpecRead)                         *)

PdfDelivered == response.route = "pdf" /\ response.status = 200

\* the texts of a document drawn at height y, and those at y or below it
TextsAt(doc, y) == LET AtY(t) == t.y = y IN SelectSeq(doc, AtY)

TextsFrom(doc, y) == LET FromY(t) == t.y >= y IN SelectSeq(doc, FromY)

\* C21: the item rows of the exported sheet hold, for every item i in item
\* order, the stored description, quantity, rate and amount of item i as they
\* are stored, four cells per row.
C21_ItemRowsVerbatim ==
    ExcelDelivered
    => LET rows   == response.document
           stored == ItemSeq(ItemsOf(response.id))
           n      == Len(stored)
       IN  /\ Len(rows) = 18 + n
           /\ \A i \in 1..n :
                /\ Len(rows[13 + i]) = 4
                /\ rows[13 + i][1] = stored[i].description
                /\ rows[13 + i][2] = stored[i].quantity
                /\ rows[13 + i][3] = stored[i].rate
                /\ rows[13 + i][4] = stored[i].amount

C21_Witness ==
    /\ ExcelDelivered
    /\ Len(ItemSeq(ItemsOf(response.id))) = 2
    /\ response.document[14][1] = "A"
    /\ response.document[15][1] = "B"
    /\ response.document[15][3] = Num(25)

\* C22: the totals block of the PDF is the subtotal line, the discount line
\* if and only if discount > 0, the tax line if and only if tax > 0, and the
\* total line last, each 10 below the line before it starting at the
\* subtotal line.
C22_PdfTotalsBlock ==
    PdfDelivered
    => LET r     == getInvoiceById(response.id)
           inv   == r.invoice
           ySub  == 150 + 10 * Len(r.items)
           block == TextsFrom(response.document, ySub)
           k     == Len(block)
           d     == NumLt(Num(0), parseFloat(inv.discount))
           t     == NumLt(Num(0), parseFloat(inv.tax))
       IN  /\ k = 2 + (IF d THEN 1 ELSE 0) + (IF t THEN 1 ELSE 0)
           /\ \A j \in 1..k : block[j].y = ySub + 10 * (j - 1) /\ block[j].x = 120
           /\ block[1].text = <<"Subtotal: $", inv.subtotal>>
           /\ block[k].text = <<"Total: $", inv.total>>
           /\ d => block[2].text = <<"Discount: ", inv.discount, "%">>
           /\ t => block[k - 1].text = <<"Tax: ", inv.tax, "%">>

C22_Witness ==
    /\ PdfDelivered
    /\ LET inv == getInvoiceById(response.id).invoice
       IN  inv.discount = Num(0) /\ inv.tax = Num(5)
    /\ Len(TextsFrom(response.document, 160)) = 3

\* C23: the 'Bill To' block of the PDF is the client name and, if and only if
\* the client has a non-empty address, the address; without an address no
\* text is drawn in its place, and everything drawn after the block is the
\* same with and without the address.
C23_PdfAddressConditional ==
    PdfDelivered
    => LET r      == getInvoiceById(response.id)
           client == CHOOSE c \in r.client : TRUE
           doc    == response.document
           other  == [client EXCEPT !.address = IF @ = "" THEN "1 Main St" ELSE ""]
           twin   == PdfTexts([r EXCEPT !.client = {other}]).texts
       IN  /\ doc[5] = Text(<<"Bill To:">>, 20, 90)
           /\ doc[6] = Text(<<client.name>>, 20, 100)
           /\ IF client.address # ""
              THEN TextsAt(doc, 110) = <<Text(<<client.address>>, 20, 110)>>
              ELSE TextsAt(doc, 110) = <<>>
           /\ Len(doc) = 6 + Len(TextsAt(doc, 110)) + Len(TextsFrom(doc, 130))
           /\ TextsFrom(doc, 130) = TextsFrom(twin, 130)

C23_Witness ==
    /\ PdfDelivered
    /\ \E c \in clients : c.id = 1 /\ c.address = ""
    /\ TextsAt(response.document, 110) = <<>>

\* C25: the item table of the PDF is the header row once at 130 and one row
\* per item in item order, item k (from 0) at 140 + 10*k, the columns at 20,
\* 120, 140 and 160; the heights never decrease along the document and the
\* subtotal line is at 150 + 10*n.
C25_PdfItemTable ==
    PdfDelivered
    => LET items == getInvoiceById(response.id).items
           n     == Len(items)
           doc   == response.document
       IN  /\ TextsAt(doc, 130) =
                << Text(<<"Description">>, 20, 130), Text(<<"Qty">>, 120, 130),
                   Text(<<"Rate">>, 140, 130), Text(<<"Amount">>, 160, 130) >>
           /\ \A k \in 0..(n - 1) :
                TextsAt(doc, 140 + 10 * k) =
                    << Text(<<items[k + 1].description>>, 20, 140 + 10 * k),
                       Text(<<items[k + 1].quantity>>, 120, 140 + 10 * k),
                       Text(<<"$", items[k + 1].rate>>, 140, 140 + 10 * k),
                       Text(<<"$", items[k + 1].amount>>, 160, 140 + 10 * k) >>
           /\ TextsAt(doc, 140 + 10 * n) = <<>>
           /\ Len(TextsAt(doc, 150 + 10 * n)) = 1
           /\ TextsAt(doc, 150 + 10 * n)[1].text[1] = "Subtotal: $"
           /\ \A j \in 1..(Len(doc) - 1) : doc[j].y <= doc[j + 1].y
           /\ Len(TextsFrom(doc, 130)) = 4 + 4 * n + Len(TextsFrom(doc, 150 + 10 * n))

C25_Witness ==
    /\ PdfDelivered
    /\ Len(getInvoiceById(response.id).items) = 2
    /\ Len(TextsAt(response.document, 150)) = 4

----------------------------------------------------------------------------
(* Properties of the routing of GET requests (SpecHttp)                    *)

\* C26 as stated: a GET of /api/invoices/stats is answered by the statistics
\* handler with the statistics of the requesting user, not by the handler of
\* /api/invoices/:id.
C26_StatsPathReachesStats ==
    request.path = <<"api", "invoices", "stats">>
    => /\ response.route = "stats"
       /\ response.status = 200
       /\ statsResult = [userId |-> request.user] @@ getInvoiceStats(request.user, clock)

\* C29 as stated: a by-id read or export answers with an invoice only to the
\* user who owns it.
C29_OnlyOwnInvoices ==
    (response.route \in {"invoice", "pdf", "excel"} /\ response.status = 200)
    => \A r \in invoices : r.id = response.id => r.userId = request.user

----------------------------------------------------------------------------
(* Properties of the forms (SpecForm)                                      *)

\* the string is empty or spells no number
Unparseable(str) == IsNaN(parseFloat(str))

\* the contribution the claim gives an item
ItemContribution(item) ==
    IF Unparseable(item.quantity) \/ Unparseable(item.rate) THEN Num(0)
    ELSE NumMul(parseFloat(item.quantity), parseFloat(item.rate))

RECURSIVE SumContributions(_)
SumContributions(items) ==
    IF items = <<>> THEN Num(0)
    ELSE NumAdd(ItemContribution(Head(items)), SumContributions(Tail(items)))

\* C14 as stated: an item whose quantity or rate is empty or unparseable
\* counts 0 in the subtotal and is submitted with amount 0; no subtotal and no
\* submitted amount is a non-number.
C14_UnparseableItemCountsZero ==
    /\ calculateSubtotal(formItems) = SumContributions(formItems)
    /\ formPc = "submitted"
        => /\ submitted.subtotal = SumContributions(formItems)
           /\ \A i \in 1..Len(formItems) :
                /\ ~IsNaN(submitted.items[i].amount)
                /\ submitted.items[i].amount = ItemContribution(formItems[i])

ZeroIfUnparseable(str) == IF Unparseable(str) THEN Num(0) ELSE parseFloat(str)

\* the total the form shows
ShownTotal ==
    IF formKind = "InvoiceForm"
    THEN InvoiceFormTotal(formItems, formDiscount, formTax)
    ELSE calculateTotal(formItems, formDiscount, formTax)

\* C15 as stated: with a discount or tax string that is empty or unparseable
\* the total is the total computed with that percentage 0, and is a number,
\* on the form and in what it submits.
C15_UnparseablePercentIsZero ==
    LET expected == calculateInvoiceTotal(SumContributions(formItems),
                        ZeroIfUnparseable(formDiscount), ZeroIfUnparseable(formTax))
    IN  /\ ~IsNaN(ShownTotal)
        /\ ShownTotal = expected
        /\ formPc = "submitted" => submitted.total = expected

----------------------------------------------------------------------------
(* Properties of the store (Spec)                                          *)

\* no handler is between two of its statements
Quiescent == \A s \in Slots : Free(s)

RECURSIVE SumAmounts(_)
SumAmounts(rows) ==
    IF rows = {} THEN Num(0)
    ELSE LET r == CHOOSE x \in rows : TRUE
         IN  NumAdd(r.amount, SumAmounts(rows \ {r}))

\* the item payloads, as the columns return them, of the rows of invoice id
StoredItems(rows) ==
    {Item(r.description, r.quantity, r.rate, r.amount) : r \in rows}

SuppliedItems(items) == {items[i] : i \in 1..Len(items)}

\* C3 as stated: after any sequence of accepted create and update operations
\* every persisted invoice has total = (subtotal - subtotal*discount/100) *
\* (1 + tax/100), subtotal = the sum of its items' amounts, and every item has
\* amount = quantity * rate.
C3_StoredTotalsConsistent ==
    Quiescent =>
        \A inv \in invoices :
            /\ inv.total = ClosedFormTotal(inv.subtotal, inv.discount, inv.tax)
            /\ inv.subtotal = SumAmounts(ItemsOf(inv.id))
            /\ \A it \in ItemsOf(inv.id) : it.amount = NumMul(it.quantity, it.rate)

\* handler s finishes a createInvoice in this step
CreateCompletes(s) ==
    /\ handlers'[s].op = "create" /\ handlers'[s].pc = "done"
    /\ \/ handlers[s].op = "create" /\ handlers[s].pc = "insert_items"
       \/ started' = started + 1 /\ handlers'[s].req = started'

\* no handler other than s is between two of its statements
Alone(s) == \A t \in Slots \ {s} : Free(t)

\* C4 as stated: when createInvoice completes, by success or by failure at any
\* step, either the invoice row and all the item rows it was submitted with
\* are persisted, or none of them is (stated for a create that ends while no
\* other request is in flight).
C4_CreateAtomic ==
    [][\A s \in Slots :
          (CreateCompletes(s) /\ Alone(s)) =>
              LET id    == handlers'[s].id
                  row   == \E inv \in invoices' : inv.id = id
                  items == {it \in invoiceItems' : it.invoiceId = id}
              IN  \/ row /\ Cardinality(items) = Len(handlers'[s].items)
                  \/ ~row /\ items = {}]_vars

\* handler s performs an updateInvoice in this step
UpdateCompletes(s) ==
    /\ handlers'[s].op = "update" /\ handlers'[s].pc = "done"
    /\ started' = started + 1 /\ handlers'[s].req = started'

\* C5 as stated: after an update the persisted items of the invoice are exactly
\* the items supplied with the update (stated for an update that runs while no
\* other request is in flight).
C5_UpdateReplacesItems ==
    [][\A s \in Slots :
          (/\ UpdateCompletes(s)
           /\ Alone(s)
           /\ handlers'[s].result = "ok"
           /\ \E inv \in invoices' : inv.id = handlers'[s].id)
          => LET items == {it \in invoiceItems' : it.invoiceId = handlers'[s].id}
             IN  /\ StoredItems(items) = SuppliedItems(handlers'[s].items)
                 /\ Cardinality(items) = Len(handlers'[s].items)]_vars

\* handler s removes the invoice row, the last statement of deleteInvoice
DeleteCompletes(s) ==
    /\ handlers[s].op = "delete" /\ handlers[s].pc = "delete_invoice"
    /\ handlers'[s].pc = "done"

\* C6 as stated: deleteInvoice(id) removes the invoice row only after it has
\* deleted the items of id; when it removes the row, and so when it completes,
\* neither the invoice nor any item referencing it remains.
C6_DeleteLeavesNothing ==
    [][\A s \in Slots :
          /\ (/\ handlers[s].op = "delete"
              /\ handlers'[s].req = handlers[s].req
              /\ handlers'[s].pc # handlers[s].pc
              /\ \E inv \in invoices : inv.id = handlers[s].id /\ inv \notin invoices')
                => /\ handlers[s].pc = "delete_invoice"
                   /\ ItemsOf(handlers[s].id) = {}
          /\ DeleteCompletes(s) =>
                /\ ~\E inv \in invoices' : inv.id = handlers[s].id
                /\ ~\E it \in invoiceItems' : it.invoiceId = handlers[s].id]_vars

\* C16 as stated: validateInvoiceData reports the date-ordering error exactly
\* when dueDate is before issueDate, and no create or update stores such an
\* invoice: every persisted invoice has dueDate >= issueDate.
C16_DueNotBeforeIssue ==
    /\ \A b \in CreateBodies :
            ("Due date must be after issue date" \in validateInvoiceData(b.invoice))
            <=> (b.invoice.dueDate < b.invoice.issueDate)
    /\ \A r \in invoices : r.dueDate >= r.issueDate

----------------------------------------------------------------------------
(* Properties of reads interleaved with writes (SpecConc)                  *)

\* C24: the rows a getInvoiceStats call aggregates are the user's rows of
\* the store at the instant of its select, and its result is the aggregation
\* of exactly those rows, whatever other requests do before it returns.
C24_StatsFromOneSnapshot ==
    [][\A s \in Slots :
          /\ (handlers'[s].op = "stats" /\ handlers'[s].pc = "compute"
                /\ handlers'[s].req = started + 1 /\ started' = started + 1)
              => handlers'[s].items = UserInvoices(handlers'[s].id)
          /\ (handlers[s].op = "stats" /\ handlers[s].pc = "compute"
                /\ handlers'[s].pc = "done")
              => LET snapshot == handlers[s].items
                 IN  /\ statsResult'.userId = handlers[s].id
                     /\ statsResult'.totalInvoices = Cardinality(snapshot)
                     /\ \A b \in {"pendingAmount", "paidAmount", "overdueAmount"} :
                            AsNumber(statsResult'[b]) =
                                SumTotals({r \in snapshot : RuleBucket(r, clock) = b})
      ]_vars

\* a statistics call that began after a create began and returned before
\* the create inserted its items
C24_Witness ==
    \E w \in Slots, s \in Slots :
        /\ handlers[w].op = "create" /\ handlers[w].pc = "insert_items"
        /\ handlers[s].op = "stats" /\ handlers[s].pc = "done"
        /\ handlers[w].req < handlers[s].req
        /\ statsResult.userId = handlers[s].id
        /\ statsResult.totalInvoices > 0

\* C27 as stated: a getInvoiceById call that returns an invoice returns it
\* with the complete item list given at its creation, under every
\* interleaving with createInvoice and deleteInvoice.
C27_GetByIdCompleteItems ==
    \A s \in Slots :
        (handlers[s].op = "get" /\ handlers[s].pc = "done" /\ handlers[s].result = "found")
        => /\ Len(handlers[s].items) = Len(ConcBody.items)
           /\ \A i \in 1..Len(ConcBody.items) :
                /\ handlers[s].items[i].description = ConcBody.items[i].description
                /\ handlers[s].items[i].amount = PgNumeric(ConcBody.items[i].amount)

----------------------------------------------------------------------------
(* Properties of the payment settings (SpecSettings)                       *)

\* C28 as stated: whatever the interleaving of upsertPaymentSettings calls,
\* the table holds at most one payment-settings row per user.
C28_AtMostOneRowPerUser ==
    \A u \in Users : Cardinality({r \in paymentSettings : r.userId = u}) <= 1

----------------------------------------------------------------------------
(* Properties of the forms' item list (SpecForm)                           *)

\* C30 as stated: an open invoice form (new, or editing an existing
\* invoice) always holds at least one item.
C30_AtLeastOneItem ==
    formKind \in {"CreateInvoice", "InvoiceForm"} => Len(formItems) >= 1

====
